---- MODULE Spec2Model ----
(***************************************************************************)
(* rSAS functions (rsas/_rsas_functions.py): the dispatcher                *)
(* create_function and the variants _uniform_rSAS, _kumaraswami_rSAS,      *)
(* _gamma_rSAS, _invgauss_rSAS, _stats_rSAS and _lookup_rSAS.              *)
(*                                                                         *)
(* Numbers.  A float64 is modelled as an extended rational <<n, d>>:       *)
(* d > 0 and gcd(n, d) = 1 for a finite value n/d, <<1, 0>> for +inf,      *)
(* <<-1, 0>> for -inf and <<0, 0>> for nan.  The arithmetic is the IEEE    *)
(* arithmetic numpy performs on arrays (division by zero yields inf or     *)
(* nan, every comparison with nan is False) except that results are exact: *)
(* rounding and signed zeros are not modelled.                             *)
(*                                                                         *)
(* Arrays.  numpy arrays are mutable and shared by reference, so they live *)
(* in a heap indexed by references; a column slice params[:, k] is a view  *)
(* of the array it was cut from.  Rows and elements are indexed from 1     *)
(* here, from 0 in the source.                                             *)
(***************************************************************************)
EXTENDS Integers, Sequences, FiniteSets, TLC

VARIABLES pc, rSAS_type, heap, inst, snap, exc, last, writes

vars == <<pc, rSAS_type, heap, inst, snap, exc, last, writes>>

-----------------------------------------------------------------------------
(* Bounds of the model *)

MaxRows == 2
MaxQuery == 2
MaxWrites == 1

-----------------------------------------------------------------------------
(* float64 arithmetic on extended rationals *)

Abs(n) == IF n < 0 THEN -n ELSE n

Sign(n) == IF n < 0 THEN -1 ELSE IF n > 0 THEN 1 ELSE 0

RECURSIVE GCD(_, _)
GCD(a, b) == IF b = 0 THEN a ELSE GCD(b, a % b)

Norm(n, d) ==
    IF d = 0 THEN <<Sign(n), 0>>
    ELSE LET g == GCD(Abs(n), Abs(d))
         IN  <<(Sign(d) * n) \div g, Abs(d) \div g>>

R(n) == <<n, 1>>
Q(n, d) == Norm(n, d)
Inf == <<1, 0>>
NegInf == <<-1, 0>>
NaN == <<0, 0>>
Zero == <<0, 1>>
One == <<1, 1>>

isnan(x) == x = NaN
isinf(x) == x[2] = 0 /\ x[1] # 0
isfinite(x) == x[2] # 0

Neg(x) == <<-x[1], x[2]>>

Add(x, y) ==
    IF isnan(x) \/ isnan(y) THEN NaN
    ELSE IF isinf(x) /\ isinf(y) THEN (IF x = y THEN x ELSE NaN)
    ELSE IF isinf(x) THEN x
    ELSE IF isinf(y) THEN y
    ELSE Norm(x[1] * y[2] + y[1] * x[2], x[2] * y[2])

Sub(x, y) == Add(x, Neg(y))

Mul(x, y) == Norm(x[1] * y[1], x[2] * y[2])

Recip(x) == IF x[1] < 0 THEN <<-x[2], -x[1]>> ELSE <<x[2], x[1]>>

Div(x, y) == Mul(x, Recip(y))

Lt(x, y) ==
    IF isnan(x) \/ isnan(y) THEN FALSE
    ELSE IF isinf(x) /\ isinf(y) THEN x[1] < y[1]
    ELSE x[1] * y[2] < y[1] * x[2]

Gt(x, y) == Lt(y, x)

Ge(x, y) == ~isnan(x) /\ ~isnan(y) /\ ~Lt(x, y)

Le(x, y) == Ge(y, x)

Eq(x, y) == ~isnan(x) /\ ~isnan(y) /\ x = y

RECURSIVE PowInt(_, _)
PowInt(x, k) == IF k = 0 THEN One ELSE Mul(x, PowInt(x, k - 1))

(* x ** e for the exponents of the model, which are whole numbers >= 0 *)
Pow(x, e) == CASE e[2] = 1 /\ e[1] >= 0 -> PowInt(x, e[1])

RECURSIVE Factorial(_)
Factorial(k) == IF k <= 0 THEN 1 ELSE k * Factorial(k - 1)

(* scipy.special.gamma at the whole positive shapes of the model *)
gamma_function(a) == CASE a[2] = 1 /\ a[1] >= 1 -> R(Factorial(a[1] - 1))

-----------------------------------------------------------------------------
(* numpy arrays: the heap, copies and views *)

ParamsRef == "params"
SelfRef == "self"
ArgRef == "arg"
Refs == {ParamsRef, SelfRef, ArgRef}

Rows(h, ref) == 1..Len(h[ref])

(* params[:, k]: a view, read through the heap at every use *)
Col(h, ref, k) == [r \in Rows(h, ref) |-> h[ref][r][k]]

(* params[:, 2:] *)
ColsFrom(h, ref, k) ==
    [r \in Rows(h, ref) |-> SubSeq(h[ref][r], k, Len(h[ref][r]))]

(* Faulty variant: keeps the caller's array instead of copying it. *)
copy_alias(h, src) == [heap |-> h, ref |-> src]

(* params.copy(): a fresh array with the same contents *)
copy(h, src) == [heap |-> [h EXCEPT ![SelfRef] = h[src]], ref |-> SelfRef]

(* np.where(cond, a, b) on one element *)
where(cond, a, b) == IF cond THEN a ELSE b

-----------------------------------------------------------------------------
(* Results of a call: a returned array or a raised exception *)

Ok(v) == [kind |-> "ok", val |-> v, exc |-> "none"]
Raise(e) == [kind |-> "raise", val |-> <<>>, exc |-> e]

(* An instance.  buf is the array the column views look into; the other     *)
(* fields hold arrays and scalars the constructor computed.                 *)
NoInst ==
    [variant |-> "none", buf |-> "none", lam |-> <<>>, lam_on_gam |-> <<>>,
     rescale |-> <<>>, ST_min |-> NaN, ST_max |-> NaN, dist |-> <<>>]

Built(h, self) == [heap |-> h, inst |-> self, exc |-> "none"]
Failed(h, e) == [heap |-> h, inst |-> NoInst, exc |-> e]

-----------------------------------------------------------------------------
(* class _uniform_rSAS *)

uniform_ST_min(h, self) == Col(h, self.buf, 1)
uniform_ST_max(h, self) == Col(h, self.buf, 2)

uniform_init(h, params) ==
    LET c == copy(h, params)
        ST_min == Col(c.heap, c.ref, 1)
        ST_max == Col(c.heap, c.ref, 2)
    IN  Built(c.heap,
              [NoInst EXCEPT
                 !.variant = "uniform",
                 !.buf = c.ref,
                 !.lam = [i \in DOMAIN ST_min |->
                            Div(One, Sub(ST_max[i], ST_min[i]))]])

uniform_cdf_elem(h, self, ST, i) ==
    LET ST_min == uniform_ST_min(h, self)
        ST_max == uniform_ST_max(h, self)
    IN  where(Lt(ST, ST_max[i]),
              where(Gt(ST, ST_min[i]),
                    Mul(self.lam[i], Sub(ST, ST_min[i])), Zero),
              One)

uniform_cdf_all(h, self, ST) ==
    Ok([j \in 1..Len(ST) |-> uniform_cdf_elem(h, self, ST[j], j)])

uniform_cdf_i(h, self, ST, i) ==
    Ok([j \in 1..Len(ST) |-> uniform_cdf_elem(h, self, ST[j], i)])

(* Faulty variant: multiplies by the rate instead of dividing by it. *)
uniform_invcdf_i_mul(h, self, P, i) ==
    Ok([j \in 1..Len(P) |->
          Add(Mul(where(Lt(P[j], One), where(Gt(P[j], Zero), P[j], Zero), One),
                  self.lam[i]),
              uniform_ST_min(h, self)[i])])

uniform_invcdf_i(h, self, P, i) ==
    Ok([j \in 1..Len(P) |->
          Add(Div(where(Lt(P[j], One), where(Gt(P[j], Zero), P[j], Zero), One),
                  self.lam[i]),
              uniform_ST_min(h, self)[i])])

-----------------------------------------------------------------------------
(* class _kumaraswami_rSAS *)

kumaraswami_init(h, params) ==
    LET c == copy(h, params)
    IN  Built(c.heap,
              [NoInst EXCEPT !.variant = "kumaraswami", !.buf = c.ref])

kumaraswami_formula(ST, ST_min, ST_max, a, b) ==
    Sub(One,
        Pow(Sub(One, Pow(Div(Sub(ST, ST_min), Sub(ST_max, ST_min)), a)), b))

kumaraswami_cdf_elem(h, self, ST, i) ==
    LET ST_min == Col(h, self.buf, 1)[i]
        ST_max == Col(h, self.buf, 2)[i]
        a == Col(h, self.buf, 3)[i]
        b == Col(h, self.buf, 4)[i]
    IN  where(Ge(ST_max, ST_min),
              where(Gt(ST, ST_min),
                    where(Lt(ST, ST_max),
                          kumaraswami_formula(ST, ST_min, ST_max, a, b),
                          One),
                    Zero),
              where(Gt(ST, ST_min),
                    kumaraswami_formula(ST, ST_min, ST_max, a, b),
                    Zero))

kumaraswami_cdf_all(h, self, ST) ==
    Ok([j \in 1..Len(ST) |-> kumaraswami_cdf_elem(h, self, ST[j], j)])

kumaraswami_cdf_i(h, self, ST, i) ==
    Ok([j \in 1..Len(ST) |-> kumaraswami_cdf_elem(h, self, ST[j], i)])

-----------------------------------------------------------------------------
(* class _gamma_rSAS *)

(* scipy.special.gammainc and gammaincinv are library functions with         *)
(* irrational values.  They are represented by the rational pair             *)
(* x / (x + a) and p * a / (1 - p), which has what the class relies on:      *)
(* gammainc(a, 0) = 0, gammainc(a, inf) = 1, gammainc(a, .) strictly         *)
(* increasing on [0, inf), nan for x < 0 or a <= 0, and gammaincinv(a, .)    *)
(* its inverse on [0, 1] with nan outside.                                   *)
gammainc(a, x) ==
    IF isnan(a) \/ isnan(x) \/ Le(a, Zero) \/ Lt(x, Zero) THEN NaN
    ELSE IF x = Inf THEN One
    ELSE Div(x, Add(x, a))

gammaincinv(a, p) ==
    IF isnan(a) \/ isnan(p) \/ Le(a, Zero) \/ Lt(p, Zero) \/ Gt(p, One) THEN NaN
    ELSE IF p = One THEN Inf
    ELSE Div(Mul(p, a), Sub(One, p))

(* Faulty variant: stores the truncated mass itself, not its reciprocal. *)
gamma_rescale_norecip(ST_min, ST_max, lam, a) ==
    where(isfinite(ST_max), gammainc(a, Mul(lam, Sub(ST_max, ST_min))), One)

gamma_rescale(ST_min, ST_max, lam, a) ==
    where(isfinite(ST_max),
          Div(One, gammainc(a, Mul(lam, Sub(ST_max, ST_min)))), One)

gamma_init(h, params) ==
    LET c == copy(h, params)
        ST_min == Col(c.heap, c.ref, 1)
        ST_max == Col(c.heap, c.ref, 2)
        scale == Col(c.heap, c.ref, 3)
        a == Col(c.heap, c.ref, 4)
        lam == [i \in DOMAIN scale |-> Div(One, scale[i])]
    IN  Built(c.heap,
              [NoInst EXCEPT
                 !.variant = "gamma",
                 !.buf = c.ref,
                 !.lam = lam,
                 !.lam_on_gam = [i \in DOMAIN lam |->
                                   Div(Pow(lam[i], a[i]), gamma_function(a[i]))],
                 !.rescale = [i \in DOMAIN lam |->
                                gamma_rescale(ST_min[i], ST_max[i], lam[i], a[i])]])

gamma_cdf_elem(h, self, ST, i) ==
    LET ST_min == Col(h, self.buf, 1)[i]
        ST_max == Col(h, self.buf, 2)[i]
        a == Col(h, self.buf, 4)[i]
    IN  where(Gt(ST, ST_min),
              where(Lt(ST, ST_max),
                    Mul(gammainc(a, Mul(self.lam[i], Sub(ST, ST_min))),
                        self.rescale[i]),
                    One),
              Zero)

gamma_cdf_all(h, self, ST) ==
    Ok([j \in 1..Len(ST) |-> gamma_cdf_elem(h, self, ST[j], j)])

gamma_cdf_i(h, self, ST, i) ==
    Ok([j \in 1..Len(ST) |-> gamma_cdf_elem(h, self, ST[j], i)])

gamma_invcdf_i(h, self, P, i) ==
    LET ST_min == Col(h, self.buf, 1)[i]
        a == Col(h, self.buf, 4)[i]
    IN  Ok([j \in 1..Len(P) |->
              Add(Div(where(Gt(P[j], Zero),
                            where(Lt(P[j], One),
                                  gammaincinv(a, Div(P[j], self.rescale[i])),
                                  Inf),
                            NaN),
                      self.lam[i]),
                  ST_min)])

-----------------------------------------------------------------------------
(* class _invgauss_rSAS *)

invgauss_init(h, params) ==
    LET c == copy(h, params)
    IN  Built(c.heap, [NoInst EXCEPT !.variant = "invgauss", !.buf = c.ref])

(* The value is a combination of erfc, sqrt and exp of x and mu[i]; it is    *)
(* kept as the term of its arguments.                                       *)
invgauss_cdf_i(h, self, ST, i) ==
    LET loc == Col(h, self.buf, 1)
        scale == Col(h, self.buf, 2)
        mu == ColsFrom(h, self.buf, 3)
    IN  Ok([j \in 1..Len(ST) |->
              <<"invgauss", Div(Sub(ST[j], loc[i]), scale[i]), mu[i]>>])

-----------------------------------------------------------------------------
(* class _stats_rSAS and the module scipy.stats *)

(* Names of scipy.stats that are continuous distributions ... *)
StatsDistributions == {"norm", "expon", "gamma", "uniform", "invgauss"}
(* ... and names of scipy.stats that are not: a function and a submodule. *)
StatsOtherAttributes == {"describe", "mstats"}

hasattr_scipy_stats(name) == name \in StatsDistributions \cup StatsOtherAttributes

(* dist_class(shape..., loc=, scale=): a frozen distribution holding the    *)
(* values it was given, or TypeError when dist_class is no distribution     *)
(* (describe() takes no keyword loc; a module is not callable).             *)
stats_init(h, type, params) ==
    LET c == copy(h, params)
        loc == Col(c.heap, c.ref, 1)
        scale == Col(c.heap, c.ref, 2)
        shape == ColsFrom(c.heap, c.ref, 3)
    IN  IF type \in StatsDistributions
        THEN Built(c.heap,
                   [NoInst EXCEPT
                      !.variant = "stats",
                      !.buf = c.ref,
                      !.dist = [i \in DOMAIN loc |->
                                  [cls |-> type, shape |-> shape[i],
                                   loc |-> loc[i], scale |-> scale[i]]]])
        ELSE Failed(c.heap, "TypeError")

stats_cdf_i(h, self, ST, i) ==
    Ok([j \in 1..Len(ST) |-> <<"cdf", self.dist[i], ST[j]>>])

-----------------------------------------------------------------------------
(* class _lookup_rSAS and scipy.interpolate.interp1d *)

Min(S) == CHOOSE m \in S : \A n \in S : m <= n

(* np.searchsorted(x, v): the first index whose element is >= v, counted    *)
(* from 0; len(x) when there is none                                        *)
searchsorted(x, v) ==
    Min({j - 1 : j \in {k \in 1..Len(x) : ~Lt(x[k], v)}} \cup {Len(x)})

clip(n, lo, hi) == IF n < lo THEN lo ELSE IF n > hi THEN hi ELSE n

(* interp1d(x, y, kind='linear', bounds_error=True, assume_sorted=True)     *)
(* called on the array x_new                                                *)
interp1d_call(x, y, x_new) ==
    IF \E j \in 1..Len(x_new) : Lt(x_new[j], x[1]) \/ Gt(x_new[j], x[Len(x)])
    THEN Raise("ValueError")
    ELSE Ok([j \in 1..Len(x_new) |->
               LET hi == clip(searchsorted(x, x_new[j]), 1, Len(x) - 1) + 1
                   lo == hi - 1
                   slope == Div(Sub(y[hi], y[lo]), Sub(x[hi], x[lo]))
               IN  Add(Mul(slope, Sub(x_new[j], x[lo])), y[lo])])

(* Faulty variant: accepts a table when either end is right. *)
lookup_endpoints_ok_either(Omega) ==
    Eq(Omega[1], Zero) \/ Eq(Omega[Len(Omega)], One)

(* Omega[0]==0 and Omega[-1]==1 *)
lookup_endpoints_ok(Omega) ==
    Eq(Omega[1], Zero) /\ Eq(Omega[Len(Omega)], One)

lookup_init(h, params) ==
    LET c == copy(h, params)
        S_T == Col(c.heap, c.ref, 1)
        Omega == Col(c.heap, c.ref, 2)
    IN  IF ~lookup_endpoints_ok(Omega)
        THEN Failed(c.heap, "ValueError")
        ELSE Built(c.heap,
                   [NoInst EXCEPT
                      !.variant = "lookuptable",
                      !.buf = c.ref,
                      !.ST_min = S_T[1],
                      !.ST_max = S_T[Len(S_T)]])

lookup_cdf_all(h, self, ST) ==
    interp1d_call(Col(h, self.buf, 1), Col(h, self.buf, 2),
                  [j \in 1..Len(ST) |->
                     where(Lt(ST[j], self.ST_max),
                           where(Gt(ST[j], self.ST_min), ST[j], Zero),
                           One)])

lookup_cdf_i(h, self, ST, i) ==
    interp1d_call(Col(h, self.buf, 1), Col(h, self.buf, 2),
                  [j \in 1..Len(ST) |->
                     where(Lt(ST[j], self.ST_max),
                           where(Gt(ST[j], self.ST_min), ST[j], Zero),
                           One)])

-----------------------------------------------------------------------------
(* class rSASFunctionClass, method lookup and create_function *)

rSASFunctionClass_cdf_all(h, self, ST) == Raise("NotImplementedError")
rSASFunctionClass_cdf_i(h, self, ST, i) == Raise("NotImplementedError")

cdf_all(h, self, ST) ==
    CASE self.variant = "uniform" -> uniform_cdf_all(h, self, ST)
      [] self.variant = "kumaraswami" -> kumaraswami_cdf_all(h, self, ST)
      [] self.variant = "gamma" -> gamma_cdf_all(h, self, ST)
      [] self.variant = "lookuptable" -> lookup_cdf_all(h, self, ST)
      [] OTHER -> rSASFunctionClass_cdf_all(h, self, ST)

cdf_i(h, self, ST, i) ==
    CASE self.variant = "uniform" -> uniform_cdf_i(h, self, ST, i)
      [] self.variant = "kumaraswami" -> kumaraswami_cdf_i(h, self, ST, i)
      [] self.variant = "gamma" -> gamma_cdf_i(h, self, ST, i)
      [] self.variant = "invgauss" -> invgauss_cdf_i(h, self, ST, i)
      [] self.variant = "stats" -> stats_cdf_i(h, self, ST, i)
      [] self.variant = "lookuptable" -> lookup_cdf_i(h, self, ST, i)
      [] OTHER -> rSASFunctionClass_cdf_i(h, self, ST, i)

(* No class but _uniform_rSAS and _gamma_rSAS defines invcdf_i, the base    *)
(* class included: the attribute lookup fails.                              *)
invcdf_i(h, self, P, i) ==
    CASE self.variant = "uniform" -> uniform_invcdf_i(h, self, P, i)
      [] self.variant = "gamma" -> gamma_invcdf_i(h, self, P, i)
      [] OTHER -> Raise("AttributeError")

function_dict == {"gamma", "uniform", "kumaraswami", "invgauss", "lookuptable"}

create_function(h, type, params) ==
    IF type \in function_dict
    THEN CASE type = "gamma" -> gamma_init(h, params)
           [] type = "uniform" -> uniform_init(h, params)
           [] type = "kumaraswami" -> kumaraswami_init(h, params)
           [] type = "invgauss" -> invgauss_init(h, params)
           [] type = "lookuptable" -> lookup_init(h, params)
    ELSE IF hasattr_scipy_stats(type)
    THEN stats_init(h, type, params)
    ELSE Failed(h, "ValueError")

-----------------------------------------------------------------------------
(* Inputs of the model *)

Tags == function_dict \cup {"norm", "expon", "describe", "nonexistent_dist"}

UniformRows == {<<R(0), R(10)>>, <<R(5), R(15)>>}

(* ST_min, ST_max, a, b; the last row has an inverted range *)
KumaraswamiRows ==
    {<<R(0), R(10), R(2), R(2)>>, <<R(10), R(0), R(1), R(1)>>}

(* ST_min, ST_max, scale, shape *)
GammaRows ==
    {<<R(0), Inf, R(1), R(1)>>, <<R(5), R(15), R(2), R(2)>>}

InvgaussRows == {<<R(0), R(2), R(1)>>}

StatsRows == {<<R(0), R(2)>>}

Breakpoints == {R(0), R(1), R(10)}
OmegaValues == {Zero, Q(1, 2), One}

Matrices(RowSet) == UNION {[1..n -> RowSet] : n \in 1..MaxRows}

(* S_T strictly increasing, Omega arbitrary *)
LookupMatrices ==
    {m \in Matrices(Breakpoints \X OmegaValues) :
        \A r \in 1..(Len(m) - 1) : Lt(m[r][1], m[r + 1][1])}

ParamsFor(type) ==
    CASE type = "uniform" -> Matrices(UniformRows)
      [] type = "kumaraswami" -> Matrices(KumaraswamiRows)
      [] type = "gamma" -> Matrices(GammaRows)
      [] type = "invgauss" -> Matrices(InvgaussRows)
      [] type = "lookuptable" -> LookupMatrices
      [] OTHER -> Matrices(StatsRows)

STValues == {R(-1), R(0), R(5), R(10), R(15)}
PValues == {Q(-1, 2), Zero, Q(1, 4), One, Q(3, 2)}
WriteValue == R(7)

Arrays(S) == UNION {[1..n -> S] : n \in 1..MaxQuery}
ArraysOfLen(S, n) == [1..n -> S]

-----------------------------------------------------------------------------
(* The caller and the instance *)

NoCall ==
    [method |-> "none", arg |-> <<>>, i |-> 0, res |-> Ok(<<>>),
     src |-> <<>>, w |-> 0]

(* Everything an instance holds, with its views read through the heap *)
Fields(h, self) ==
    [inst |-> self, buf |-> IF self.buf \in Refs THEN h[self.buf] ELSE <<>>]

Init ==
    /\ pc = "init"
    /\ rSAS_type \in Tags
    /\ \E params \in ParamsFor(rSAS_type) :
          heap = [ref \in Refs |-> IF ref = ParamsRef THEN params ELSE <<>>]
    /\ inst = NoInst
    /\ snap = Fields(heap, NoInst)
    /\ exc = "none"
    /\ last = NoCall
    /\ writes = 0

(* rSAS_fun = create_function(rSAS_type, params) *)
Create ==
    /\ pc = "init"
    /\ LET made == create_function(heap, rSAS_type, ParamsRef)
       IN  /\ heap' = made.heap
           /\ inst' = made.inst
           /\ exc' = made.exc
           /\ snap' = Fields(made.heap, made.inst)
           /\ pc' = IF made.exc = "none" THEN "built" ELSE "raised"
    /\ UNCHANGED <<rSAS_type, last, writes>>

(* params[r, :] = v: the caller overwrites a row of the array it passed *)
CallerWrite ==
    /\ pc = "built"
    /\ writes < MaxWrites
    /\ \E r \in 1..Len(heap[ParamsRef]) :
          /\ heap[ParamsRef][r][1] # WriteValue
          /\ heap' = [heap EXCEPT
                        ![ParamsRef][r] = [c \in DOMAIN @ |-> WriteValue]]
    /\ writes' = writes + 1
    /\ UNCHANGED <<pc, rSAS_type, inst, snap, exc, last>>

(* The caller makes one call at a time: a new call once the last result is  *)
(* consumed, or the last call again with the same arguments.                *)
ArgsFor(method, fresh) ==
    IF last.method = "none" THEN fresh
    ELSE IF last.method = method THEN {last.arg}
    ELSE {}

TimestepsFor(method) ==
    IF last.method = "none" THEN 1..Len(heap[inst.buf])
    ELSE IF last.method = method THEN {last.i}
    ELSE {}

Called(method, arg, i, res, src) ==
    [method |-> method, arg |-> arg, i |-> i, res |-> res, src |-> src,
     w |-> writes]

(* rSAS_fun.cdf_all(ST): one value of ST per row, any length for the lookup *)
(* table                                                                    *)
CallCdfAll ==
    /\ pc = "built"
    /\ \E ST \in ArgsFor("cdf_all",
                         IF inst.variant = "lookuptable"
                         THEN Arrays(STValues)
                         ELSE ArraysOfLen(STValues, Len(heap[inst.buf]))) :
          /\ heap' = [heap EXCEPT ![ArgRef] = ST]
          /\ last' = Called("cdf_all", heap'[ArgRef], 0,
                            cdf_all(heap', inst, heap'[ArgRef]), last.src)
    /\ UNCHANGED <<pc, rSAS_type, inst, snap, exc, writes>>

(* rSAS_fun.cdf_i(ST, i) *)
CallCdfI ==
    /\ pc = "built"
    /\ \E ST \in ArgsFor("cdf_i", Arrays(STValues)),
          i \in TimestepsFor("cdf_i") :
          /\ heap' = [heap EXCEPT ![ArgRef] = ST]
          /\ last' = Called("cdf_i", heap'[ArgRef], i,
                            cdf_i(heap', inst, heap'[ArgRef], i), last.src)
    /\ UNCHANGED <<pc, rSAS_type, inst, snap, exc, writes>>

(* rSAS_fun.invcdf_i(P, i) *)
CallInvcdfI ==
    /\ pc = "built"
    /\ \E P \in ArgsFor("invcdf_i", Arrays(PValues)),
          i \in TimestepsFor("invcdf_i") :
          /\ heap' = [heap EXCEPT ![ArgRef] = P]
          /\ last' = Called("invcdf_i", heap'[ArgRef], i,
                            invcdf_i(heap', inst, heap'[ArgRef], i), last.src)
    /\ UNCHANGED <<pc, rSAS_type, inst, snap, exc, writes>>

(* rSAS_fun.cdf_i(rSAS_fun.invcdf_i(P, i), i): the caller passes the array  *)
(* invcdf_i returned back to cdf_i, for the same timestep                   *)
CallCdfIOfInverse ==
    /\ pc = "built"
    /\ last.method = "invcdf_i"
    /\ last.res.kind = "ok"
    /\ heap' = [heap EXCEPT ![ArgRef] = last.res.val]
    /\ last' = Called("cdf_i", heap'[ArgRef], last.i,
                      cdf_i(heap', inst, heap'[ArgRef], last.i), last.arg)
    /\ UNCHANGED <<pc, rSAS_type, inst, snap, exc, writes>>

(* The caller consumes the result (or handles the exception) and drops the  *)
(* argument array.                                                          *)
Return ==
    /\ pc = "built"
    /\ last.method # "none"
    /\ last' = NoCall
    /\ heap' = [heap EXCEPT ![ArgRef] = <<>>]
    /\ UNCHANGED <<pc, rSAS_type, inst, snap, exc, writes>>

Next ==
    \/ Create
    \/ CallerWrite
    \/ CallCdfAll
    \/ CallCdfI
    \/ CallInvcdfI
    \/ CallCdfIOfInverse
    \/ Return

Spec == Init /\ [][Next]_vars

-----------------------------------------------------------------------------
(* Shorthands for the properties *)

SelfCol(k) == Col(heap, inst.buf, k)

InUnit(v) == Ge(v, Zero) /\ Le(v, One)

Returned(method) == pc = "built" /\ last.method = method

-----------------------------------------------------------------------------
(* C1: create_function resolves a built-in tag to the matching variant      *)
(* (whose constructor may reject a lookup table), any other tag that names  *)
(* a distribution of scipy.stats to the generic adapter, and fails with     *)
(* ValueError, constructing nothing, for every other tag.                   *)
C1_ResolutionOrder ==
    pc # "init" =>
      /\ rSAS_type \in function_dict =>
           \/ pc = "built" /\ inst.variant = rSAS_type
           \/ /\ rSAS_type = "lookuptable"
              /\ pc = "raised" /\ exc = "ValueError" /\ inst = NoInst
      /\ rSAS_type \notin function_dict /\ rSAS_type \in StatsDistributions =>
           /\ pc = "built" /\ inst.variant = "stats"
           /\ \A i \in DOMAIN inst.dist : inst.dist[i].cls = rSAS_type
      /\ rSAS_type \notin function_dict /\ rSAS_type \notin StatsDistributions =>
           pc = "raised" /\ exc = "ValueError" /\ inst = NoInst

-----------------------------------------------------------------------------
(* C2: a lookup table is constructed if and only if the first value of      *)
(* Omega is 0 and the last is 1; otherwise the constructor raises           *)
(* ValueError and no instance is returned.                                  *)
C2_LookupConstruction ==
    (rSAS_type = "lookuptable" /\ pc # "init" /\ writes = 0) =>
      LET Omega == Col(heap, ParamsRef, 2)
          ends == Eq(Omega[1], Zero) /\ Eq(Omega[Len(Omega)], One)
      IN  /\ (pc = "built") <=> ends
          /\ pc = "built" => inst.variant = "lookuptable"
          /\ pc = "raised" => exc = "ValueError" /\ inst = NoInst

C2_Witness ==
    /\ rSAS_type = "lookuptable"
    /\ pc = "raised"
    /\ Len(heap[ParamsRef]) >= 2
    /\ ~Eq(heap[ParamsRef][1][2], Zero)
    /\ Eq(heap[ParamsRef][Len(heap[ParamsRef])][2], One)

-----------------------------------------------------------------------------
(* C3: for uniform, kumaraswami and gamma and a timestep i with             *)
(* ST_min[i] < ST_max[i], cdf_i is 0 at every ST <= ST_min[i], 1 at every   *)
(* ST >= ST_max[i] and the formula of the variant strictly between; the     *)
(* rescale factor of gamma is 1 where ST_max is infinite.                   *)
C3_Formula(variant, ST, i) ==
    LET mn == SelfCol(1)[i]
        mx == SelfCol(2)[i]
        t == Div(Sub(ST, mn), Sub(mx, mn))
        G(s) == gammainc(SelfCol(4)[i], Div(Sub(s, mn), SelfCol(3)[i]))
    IN  CASE variant = "uniform" -> t
          [] variant = "kumaraswami" ->
               Sub(One, Pow(Sub(One, Pow(t, SelfCol(3)[i])), SelfCol(4)[i]))
          [] variant = "gamma" ->
               IF isfinite(mx) THEN Div(G(ST), G(mx)) ELSE G(ST)

C3_BoundsAndFormula ==
    /\ (Returned("cdf_i")
        /\ inst.variant \in {"uniform", "kumaraswami", "gamma"}
        /\ Lt(SelfCol(1)[last.i], SelfCol(2)[last.i])) =>
          /\ last.res.kind = "ok"
          /\ \A j \in DOMAIN last.arg :
                LET ST == last.arg[j]
                    v == last.res.val[j]
                    mn == SelfCol(1)[last.i]
                    mx == SelfCol(2)[last.i]
                IN  /\ Le(ST, mn) => v = Zero
                    /\ Ge(ST, mx) => v = One
                    /\ (Gt(ST, mn) /\ Lt(ST, mx)) =>
                         v = C3_Formula(inst.variant, ST, last.i)
    /\ (pc = "built" /\ inst.variant = "gamma") =>
          \A i \in DOMAIN inst.rescale :
             isinf(SelfCol(2)[i]) => inst.rescale[i] = One

C3_Witness ==
    /\ Returned("cdf_i")
    /\ inst.variant = "gamma"
    /\ isfinite(SelfCol(2)[last.i])
    /\ Len(last.arg) = 2
    /\ Gt(last.arg[1], SelfCol(1)[last.i])
    /\ Lt(last.arg[1], SelfCol(2)[last.i])
    /\ last.arg[2] = SelfCol(2)[last.i]
    /\ last.res.val[2] = One

-----------------------------------------------------------------------------
(* C4: a lookup table returns 0 at every ST <= S_T[0], 1 at every           *)
(* ST >= S_T[-1] and the piecewise-linear interpolation of Omega between,   *)
(* and no query raises.                                                     *)
C4_Interpolated(S_T, Omega, ST, v) ==
    \E r \in 1..(Len(S_T) - 1) :
       /\ Le(S_T[r], ST) /\ Le(ST, S_T[r + 1])
       /\ v = Add(Omega[r],
                  Div(Mul(Sub(Omega[r + 1], Omega[r]), Sub(ST, S_T[r])),
                      Sub(S_T[r + 1], S_T[r])))

C4_LookupBounds ==
    (pc = "built" /\ inst.variant = "lookuptable"
     /\ last.method \in {"cdf_i", "cdf_all"}) =>
       /\ last.res.kind = "ok"
       /\ \A j \in DOMAIN last.arg :
             LET ST == last.arg[j]
                 v == last.res.val[j]
                 S_T == SelfCol(1)
             IN  /\ Le(ST, S_T[1]) => v = Zero
                 /\ Ge(ST, S_T[Len(S_T)]) => v = One
                 /\ (Gt(ST, S_T[1]) /\ Lt(ST, S_T[Len(S_T)])) =>
                      C4_Interpolated(S_T, SelfCol(2), ST, v)

-----------------------------------------------------------------------------
(* C5: on valid parameters cdf_i of uniform, kumaraswami, gamma and         *)
(* lookuptable returns values in [0, 1] that do not decrease as ST grows.   *)
C5_ValidAt(i) ==
    IF inst.variant = "lookuptable"
    THEN \A r \in 1..(Len(SelfCol(2)) - 1) : Le(SelfCol(2)[r], SelfCol(2)[r + 1])
    ELSE Lt(SelfCol(1)[i], SelfCol(2)[i])

C5_Monotone ==
    (Returned("cdf_i")
     /\ inst.variant \in {"uniform", "kumaraswami", "gamma", "lookuptable"}
     /\ C5_ValidAt(last.i)) =>
       /\ last.res.kind = "ok"
       /\ \A j \in DOMAIN last.arg : InUnit(last.res.val[j])
       /\ \A j, k \in DOMAIN last.arg :
             Lt(last.arg[j], last.arg[k]) =>
                Le(last.res.val[j], last.res.val[k])

-----------------------------------------------------------------------------
(* C6: kumaraswami with ST_max < ST_min returns 0 at every ST <= ST_min and *)
(* the swapped-branch formula above it, and every value lies in [0, 1].     *)
C6_Row(m) == IF last.method = "cdf_all" THEN m ELSE last.i

C6_InvertedRange ==
    (pc = "built" /\ inst.variant = "kumaraswami"
     /\ last.method \in {"cdf_i", "cdf_all"}) =>
       /\ last.res.kind = "ok"
       /\ \A j \in DOMAIN last.arg :
             LET ST == last.arg[j]
                 v == last.res.val[j]
                 i == C6_Row(j)
             IN  Lt(SelfCol(2)[i], SelfCol(1)[i]) =>
                   /\ InUnit(v)
                   /\ Le(ST, SelfCol(1)[i]) => v = Zero
                   /\ Gt(ST, SelfCol(1)[i]) =>
                        v = C3_Formula("kumaraswami", ST, i)

-----------------------------------------------------------------------------
(* C7: for uniform and gamma, ST_min[i] < ST_max[i] and 0 < P < 1,          *)
(* invcdf_i(P, i) lies strictly between the bounds and                      *)
(* cdf_i(invcdf_i(P, i), i) = P.                                            *)
C7_RoundTrip ==
    (Returned("cdf_i") /\ last.src # <<>>
     /\ inst.variant \in {"uniform", "gamma"}
     /\ Lt(SelfCol(1)[last.i], SelfCol(2)[last.i])) =>
       /\ last.res.kind = "ok"
       /\ \A j \in DOMAIN last.src :
             (Gt(last.src[j], Zero) /\ Lt(last.src[j], One)) =>
                /\ last.res.val[j] = last.src[j]
                /\ Gt(last.arg[j], SelfCol(1)[last.i])
                /\ Lt(last.arg[j], SelfCol(2)[last.i])

C7_Witness ==
    /\ Returned("cdf_i") /\ last.src # <<>>
    /\ inst.variant = "gamma"
    /\ isfinite(SelfCol(2)[last.i])
    /\ \E j \in DOMAIN last.src :
          /\ Gt(last.src[j], Zero) /\ Lt(last.src[j], One)
          /\ last.res.val[j] = last.src[j]

-----------------------------------------------------------------------------
(* C8: invcdf_i saturates.  uniform: ST_min[i] for P <= 0, ST_max[i] for    *)
(* P >= 1.  gamma: +inf or ST_max[i] for P >= 1, nan for P < 0, and         *)
(* ST_min[i] for P = 0.                                                     *)
C8_Saturation ==
    (Returned("invcdf_i") /\ inst.variant \in {"uniform", "gamma"}) =>
       /\ last.res.kind = "ok"
       /\ \A j \in DOMAIN last.arg :
             LET P == last.arg[j]
                 v == last.res.val[j]
                 mn == SelfCol(1)[last.i]
                 mx == SelfCol(2)[last.i]
             IN  IF inst.variant = "uniform"
                 THEN /\ Le(P, Zero) => v = mn
                      /\ Ge(P, One) => v = mx
                 ELSE /\ Ge(P, One) => (v = Inf \/ v = mx)
                      /\ Lt(P, Zero) => isnan(v)
                      /\ Eq(P, Zero) => v = mn

-----------------------------------------------------------------------------
(* C9: cdf_all on invgauss and stats, and invcdf_i on kumaraswami,          *)
(* invgauss, stats and lookuptable, raise NotImplementedError; cdf_i is     *)
(* implemented by every variant.                                            *)
C9_NotImplemented ==
    pc = "built" =>
      /\ (last.method = "cdf_all" /\ inst.variant \in {"invgauss", "stats"}) =>
            last.res = Raise("NotImplementedError")
      /\ (last.method = "invcdf_i"
          /\ inst.variant \in {"kumaraswami", "invgauss", "stats", "lookuptable"}) =>
            last.res = Raise("NotImplementedError")
      /\ last.method = "cdf_i" =>
            last.res.exc \notin {"NotImplementedError", "AttributeError"}

-----------------------------------------------------------------------------
(* C10: once constructed, every field of the instance keeps the value it    *)
(* was constructed with, whatever the caller calls or writes to its own     *)
(* array; a call changes neither the caller's array nor its argument; the   *)
(* same call again returns the same result.                                 *)
C10_Step ==
    /\ pc' = "built" => Fields(heap', inst') = snap'
    /\ pc = "built" => snap' = snap
    /\ (last' # last /\ last'.method # "none") =>
          /\ heap'[ParamsRef] = heap[ParamsRef]
          /\ heap'[ArgRef] = last'.arg
    /\ (pc = "built" /\ last.method # "none" /\ last'.method = last.method
        /\ last'.arg = last.arg /\ last'.i = last.i) =>
          last'.res = last.res

C10_Immutable == [][C10_Step]_vars

C10_Witness ==
    /\ Returned("cdf_i")
    /\ last.res.kind = "ok"
    /\ last.w >= 1
    /\ heap[ParamsRef] # heap[inst.buf]

====
